---- MODULE Spec2Model ----
(***************************************************************************)
(* Model of the Init facade of oseelabs/ai-js (src/lib/gemini/genai/init): *)
(* a wrapper around the @google/genai client.                              *)
(*                                                                         *)
(* JavaScript runs one synchronous segment at a time: the body of an async *)
(* method runs without interruption up to its first await, and again from  *)
(* the settling of the awaited promise to the return.  Each such segment   *)
(* is one action of the model.  The external SDK is the environment: the   *)
(* calls a segment makes on it are recorded in calls, and its answers are  *)
(* chosen nondeterministically from bounded sets when a pending call       *)
(* settles.                                                                *)
(***************************************************************************)
EXTENDS Naturals, Sequences, FiniteSets

VARIABLES
    pc,             \* "new": parameter properties assigned, constructor body not yet run; "ready" after
    _apiKey,        \* private _apiKey: string
    _options,       \* private _options: GoogleGenAIOptions
    _genai,         \* private _genai: GenAiType | null
    _modelVariant,  \* private _modelVariant: ModelVariant
    chat,           \* protected chat: Chat | undefined   (0 = undefined, n = the n-th Chat made by chats.create)
    _session,       \* protected _session: {chat, id} | undefined
    nClients,       \* number of GoogleGenAI objects constructed so far (by the caller or the facade)
    nChats,         \* number of Chat objects chats.create has returned so far
    nUuid,          \* number of crypto.randomUUID() results drawn so far
    hist,           \* history: how often each session-creating path ran and the slot was assigned, whether the guard has refused a call
    tasks,          \* the async invocations suspended at their await, in invocation order
    streams,        \* the AsyncGenerator objects handed to consumers and not yet released
    last,           \* the segment that ran last: which operation, its arguments, what it returned or threw
    calls           \* the calls the last segment made on the external client, in order

vars == <<pc, _apiKey, _options, _genai, _modelVariant, chat, _session,
          nClients, nChats, nUuid, hist, tasks, streams, last, calls>>

-----------------------------------------------------------------------------
(* Bounds of the model *)

MaxTasks == 2       \* async activities in flight at once: suspended invocations and open streams
MaxChats == 3       \* Chat objects created per facade
MaxStreams == 1     \* streams requested or open at once
MaxFrags == 2       \* fragments an external producer emits

(* Input sets *)

Keys == {"", "k1", "k2"}
Requests == {[arg |-> "c1", cfg |-> "undefined"], [arg |-> "c2", cfg |-> "cfg"]}
Objects == {"r1", "r2"}
ExtErrors == {"e1"}

-----------------------------------------------------------------------------
(* JavaScript values that cross the facade: t is the kind, v a payload.    *)

Undefined == [t |-> "undefined", v |-> ""]
Null == [t |-> "null", v |-> ""]
Str(s) == [t |-> "string", v |-> s]
Obj(o) == [t |-> "object", v |-> o]

\* !x of JavaScript, on the values above
Falsy(x) == x.t \in {"undefined", "null"} \/ (x.t = "string" /\ x.v = "")

\* !this._apiKey, on strings
KeyUnset(k) == k = ""

Responses == {Obj(o) : o \in Objects}
EmptyResults == {Undefined, Null, Str("")}

\* the fragment sequences a producer may emit: f1, f2, ... up to MaxFrags of them
FragSeqs == {[i \in 1..n |-> i] : n \in 0..MaxFrags}

\* the AsyncGenerator the external client answers a streaming call with: it
\* emits frags and then ends, or raises err if err is not ""
Producer(frags, err) == [frags |-> frags, err |-> err, pos |-> 0, closed |-> FALSE]

Producers == {Producer(f, e) : f \in FragSeqs, e \in {""} \cup ExtErrors}

-----------------------------------------------------------------------------
(* The facade's fields *)

DefaultModel == "gemini-1.5-flash"

EmptyOptions == [hasApiKey |-> FALSE, apiKey |-> "", apiVersion |-> ""]
NoClient == [id |-> 0, by |-> "none", cfg |-> EmptyOptions]
NoSession == [chat |-> 0, id |-> 0]

\* new GoogleGenAI(options): the n-th client object, built from options
NewGoogleGenAI(n, options, who) == [id |-> n, by |-> who, cfg |-> options]

\* what a caller may pass to the constructor after the credential: nothing
\* (the defaults), or a bag holding another credential and a transport option
\* together with a client built by the caller and another model
CtorArgs ==
    { [options |-> EmptyOptions, genai |-> NoClient, model |-> DefaultModel],
      [options |-> [hasApiKey |-> TRUE, apiKey |-> "k2", apiVersion |-> "v1alpha"],
       genai |-> NewGoogleGenAI(1, [hasApiKey |-> TRUE, apiKey |-> "k2", apiVersion |-> ""], "caller"),
       model |-> "gemini-2.0-flash"] }

NoHist == [lazy |-> 0, explicit |-> 0, assigns |-> 0, refused |-> FALSE]

\* the record of one segment
Seg(name, seg, arg, cfg, status, value, err, sess) ==
    [name |-> name, seg |-> seg, arg |-> arg, cfg |-> cfg, status |-> status,
     value |-> value, err |-> err, sess |-> sess, res |-> Undefined, resErr |-> ""]

NoSeg == Seg("", "", "", "", "", Undefined, "", NoSession)

-----------------------------------------------------------------------------
Init ==
    /\ pc = "new"
    /\ _apiKey \in Keys
    /\ \E a \in CtorArgs :
          /\ _options = a.options
          /\ _genai = a.genai
          /\ _modelVariant = a.model
    /\ chat = 0
    /\ _session = NoSession
    /\ nClients = _genai.id
    /\ nChats = 0
    /\ nUuid = 0
    /\ hist = NoHist
    /\ tasks = <<>>
    /\ streams = <<>>
    /\ last = NoSeg
    /\ calls = <<>>

\* the constructor body, were it to keep a client handle the caller passed
constructor_KeepsHandle ==
    /\ pc = "new"
    /\ pc' = "ready"
    /\ _options' = [_options EXCEPT !.hasApiKey = TRUE, !.apiKey = _apiKey]
    /\ _genai' = IF _genai.id = 0 THEN NewGoogleGenAI(nClients + 1, _options', "facade") ELSE _genai
    /\ nClients' = IF _genai.id = 0 THEN nClients + 1 ELSE nClients
    /\ last' = Seg("constructor", "call", _apiKey, "", "returned", Undefined, "", NoSession)
    /\ calls' = <<>>
    /\ UNCHANGED <<_apiKey, _modelVariant, chat, _session, nChats, nUuid, hist, tasks, streams>>

\* the constructor body, were the client left to be built on first use
constructor_Lazy ==
    /\ pc = "new"
    /\ pc' = "ready"
    /\ _options' = [_options EXCEPT !.hasApiKey = TRUE, !.apiKey = _apiKey]
    /\ _genai' = NoClient
    /\ last' = Seg("constructor", "call", _apiKey, "", "returned", Undefined, "", NoSession)
    /\ calls' = <<>>
    /\ UNCHANGED <<_apiKey, _modelVariant, chat, _session, nClients, nChats, nUuid, hist, tasks,
                   streams>>

\* the constructor body
constructor ==
    /\ pc = "new"
    /\ pc' = "ready"
    /\ _options' = [_options EXCEPT !.hasApiKey = TRUE, !.apiKey = _apiKey]
    /\ _genai' = NewGoogleGenAI(nClients + 1, _options', "facade")
    /\ nClients' = nClients + 1
    /\ last' = Seg("constructor", "call", _apiKey, "", "returned", Undefined, "", NoSession)
    /\ calls' = <<>>
    /\ UNCHANGED <<_apiKey, _modelVariant, chat, _session, nChats, nUuid, hist, tasks, streams>>

\* get apiKey()
GetApiKey ==
    /\ pc = "ready"
    /\ last' = Seg("getApiKey", "call", "", "", "returned", Str(_apiKey), "", NoSession)
    /\ calls' = <<>>
    /\ UNCHANGED <<pc, _apiKey, _options, _genai, _modelVariant, chat, _session,
                   nClients, nChats, nUuid, hist, tasks, streams>>

\* set apiKey(value), were it to write the credential into the configuration bag too
SetApiKey_Propagating(value) ==
    /\ pc = "ready"
    /\ _apiKey' = value
    /\ _options' = [_options EXCEPT !.apiKey = value]
    /\ last' = Seg("setApiKey", "call", value, "", "returned", Undefined, "", NoSession)
    /\ calls' = <<>>
    /\ UNCHANGED <<pc, _genai, _modelVariant, chat, _session,
                   nClients, nChats, nUuid, hist, tasks, streams>>

\* set apiKey(value)
SetApiKey(value) ==
    /\ pc = "ready"
    /\ _apiKey' = value
    /\ last' = Seg("setApiKey", "call", value, "", "returned", Undefined, "", NoSession)
    /\ calls' = <<>>
    /\ UNCHANGED <<pc, _options, _genai, _modelVariant, chat, _session,
                   nClients, nChats, nUuid, hist, tasks, streams>>

\* get options()
GetOptions ==
    /\ pc = "ready"
    /\ last' = Seg("options", "call", "", "", "returned", Str(_options.apiKey), "", NoSession)
    /\ calls' = <<>>
    /\ UNCHANGED <<pc, _apiKey, _options, _genai, _modelVariant, chat, _session,
                   nClients, nChats, nUuid, hist, tasks, streams>>

-----------------------------------------------------------------------------
(* Calls on the external client *)

\* one call: the interface and operation, the client object it went to and
\* the credential that client was built with, the facade's credential at the
\* time, the request fields, and the Chat object involved
Call(iface, op, client, key, model, arg, cfg, chatObj) ==
    [iface |-> iface, op |-> op, client |-> client.id, clientKey |-> client.cfg.apiKey,
     key |-> key, model |-> model, arg |-> arg, cfg |-> cfg, chat |-> chatObj]

\* if (!this._genai) { this._genai = new GoogleGenAI(this._options); }
EnsureClient(genai, n) ==
    IF genai.id = 0 THEN NewGoogleGenAI(n + 1, _options, "facade") ELSE genai

\* an invocation suspended at its await: the method and the Chat it sent through
Task(op, chatObj) == [op |-> op, chat |-> chatObj]

KeyError == "API key is not set."

StreamOps == {"generateContentStream", "chatMessageStream"}

\* streams requested (their call still pending) or open
StreamLoad == Cardinality({i \in 1..Len(tasks) : tasks[i].op \in StreamOps}) + Len(streams)

\* the model's bound on an invocation of op
MayInvoke(op) ==
    /\ pc = "ready"
    /\ Len(tasks) + Len(streams) < MaxTasks
    /\ op \in StreamOps => StreamLoad < MaxStreams

\* get models(), were a refused read to drop the client handle
models_DropsClient ==
    /\ pc = "ready"
    /\ calls' = <<>>
    /\ IF KeyUnset(_apiKey)
       THEN /\ last' = Seg("models", "call", "", "", "threw", Undefined, KeyError, NoSession)
            /\ hist' = [hist EXCEPT !.refused = TRUE]
            /\ _genai' = NoClient
            /\ UNCHANGED nClients
       ELSE /\ _genai' = EnsureClient(_genai, nClients)
            /\ nClients' = IF _genai'.id > nClients THEN _genai'.id ELSE nClients
            /\ last' = Seg("models", "call", "", "", "returned", Obj("models"), "", NoSession)
            /\ UNCHANGED hist
    /\ UNCHANGED <<pc, _apiKey, _options, _modelVariant, chat, _session, nChats, nUuid,
                   tasks, streams>>

\* get models()
models ==
    /\ pc = "ready"
    /\ calls' = <<>>
    /\ IF KeyUnset(_apiKey)
       THEN /\ last' = Seg("models", "call", "", "", "threw", Undefined, KeyError, NoSession)
            /\ hist' = [hist EXCEPT !.refused = TRUE]
            /\ UNCHANGED <<_genai, nClients>>
       ELSE /\ _genai' = EnsureClient(_genai, nClients)
            /\ nClients' = IF _genai'.id > nClients THEN _genai'.id ELSE nClients
            /\ last' = Seg("models", "call", "", "", "returned", Obj("models"), "", NoSession)
            /\ UNCHANGED hist
    /\ UNCHANGED <<pc, _apiKey, _options, _modelVariant, chat, _session, nChats, nUuid,
                   tasks, streams>>

\* the first segment of the generation methods, were the request to name the
\* default model where it names the configured one
Generate_DefaultModel(op, arg, cfg) ==
    /\ MayInvoke(op)
    /\ IF KeyUnset(_apiKey)
       THEN /\ last' = Seg(op, "call", arg, cfg, "threw", Undefined, KeyError, NoSession)
            /\ calls' = <<>>
            /\ hist' = [hist EXCEPT !.refused = TRUE]
            /\ UNCHANGED <<_genai, nClients, tasks>>
       ELSE /\ _genai' = EnsureClient(EnsureClient(_genai, nClients), nClients)
            /\ nClients' = IF _genai'.id > nClients THEN _genai'.id ELSE nClients
            /\ calls' = <<Call("models", op, _genai', _apiKey, DefaultModel, arg, cfg, 0)>>
            /\ tasks' = Append(tasks, Task(op, 0))
            /\ last' = Seg(op, "call", arg, cfg, "pending", Undefined, "", NoSession)
            /\ UNCHANGED hist
    /\ UNCHANGED <<pc, _apiKey, _options, _modelVariant, chat, _session, nChats, nUuid, streams>>

\* the first segment of the generation methods, were the guard to test the
\* credential in the configuration bag
Generate_GuardOnOptions(op, arg, cfg) ==
    /\ MayInvoke(op)
    /\ IF KeyUnset(_options.apiKey)
       THEN /\ last' = Seg(op, "call", arg, cfg, "threw", Undefined, KeyError, NoSession)
            /\ calls' = <<>>
            /\ hist' = [hist EXCEPT !.refused = TRUE]
            /\ UNCHANGED <<_genai, nClients, tasks>>
       ELSE /\ _genai' = EnsureClient(EnsureClient(_genai, nClients), nClients)
            /\ nClients' = IF _genai'.id > nClients THEN _genai'.id ELSE nClients
            /\ calls' = <<Call("models", op, _genai', _apiKey, _modelVariant, arg, cfg, 0)>>
            /\ tasks' = Append(tasks, Task(op, 0))
            /\ last' = Seg(op, "call", arg, cfg, "pending", Undefined, "", NoSession)
            /\ UNCHANGED hist
    /\ UNCHANGED <<pc, _apiKey, _options, _modelVariant, chat, _session, nChats, nUuid, streams>>

\* The synchronous first segment the seven generation methods share: the
\* guard, the client check, this.models (guard and client check again), then
\* the call this.models.<op>({model, contents | prompt, config}).
Generate(op, arg, cfg) ==
    /\ MayInvoke(op)
    /\ IF KeyUnset(_apiKey)
       THEN /\ last' = Seg(op, "call", arg, cfg, "threw", Undefined, KeyError, NoSession)
            /\ calls' = <<>>
            /\ hist' = [hist EXCEPT !.refused = TRUE]
            /\ UNCHANGED <<_genai, nClients, tasks>>
       ELSE /\ _genai' = EnsureClient(EnsureClient(_genai, nClients), nClients)
            /\ nClients' = IF _genai'.id > nClients THEN _genai'.id ELSE nClients
            /\ calls' = <<Call("models", op, _genai', _apiKey, _modelVariant, arg, cfg, 0)>>
            /\ tasks' = Append(tasks, Task(op, 0))
            /\ last' = Seg(op, "call", arg, cfg, "pending", Undefined, "", NoSession)
            /\ UNCHANGED hist
    /\ UNCHANGED <<pc, _apiKey, _options, _modelVariant, chat, _session, nChats, nUuid, streams>>

generateContent(contents, config) == Generate("generateContent", contents, config)
generateContentStream(contents, config) == Generate("generateContentStream", contents, config)
generateImages(prompt, config) == Generate("generateImages", prompt, config)
generateVideos(prompt, config) == Generate("generateVideos", prompt, config)
computeTokens(contents, config) == Generate("computeTokens", contents, config)
countTokens(contents, config) == Generate("countTokens", contents, config)
embedContent(contents, config) == Generate("embedContent", contents, config)

-----------------------------------------------------------------------------
(* The chat session cache *)

\* the fields the session code reads and writes, and the calls it makes
ChatState == [chat |-> chat, session |-> _session, nChats |-> nChats, nUuid |-> nUuid,
              hist |-> hist, calls |-> <<>>]

\* this._genai?.chats.create({model: this._modelVariant, config: {}}), assigned to this.chat
ChatsCreate(f) ==
    IF _genai.id = 0
    THEN [f EXCEPT !.chat = 0]
    ELSE [f EXCEPT !.chat = f.nChats + 1,
                   !.nChats = f.nChats + 1,
                   !.calls = Append(f.calls, Call("chats", "create", _genai, _apiKey, _modelVariant,
                                                  "", "{}", f.nChats + 1))]

\* the body of createChatSession(), were it to keep a Chat the facade already has
CreateChatSessionOn_Reuse(f) ==
    LET g == IF f.chat = 0 THEN ChatsCreate(f) ELSE f
    IN [g EXCEPT !.session = [chat |-> g.chat, id |-> g.nUuid + 1],
                 !.nUuid = g.nUuid + 1,
                 !.hist.assigns = @ + 1]

\* the body of createChatSession(), were the new Chat put in the pair only and
\* not assigned to this.chat
CreateChatSessionOn_LocalChat(f) ==
    LET g == ChatsCreate(f)
    IN [g EXCEPT !.chat = f.chat,
                 !.session = [chat |-> g.chat, id |-> g.nUuid + 1],
                 !.nUuid = g.nUuid + 1,
                 !.hist.assigns = @ + 1]

\* the body of createChatSession()
CreateChatSessionOn(f) ==
    LET g == ChatsCreate(f)
    IN [g EXCEPT !.session = [chat |-> g.chat, id |-> g.nUuid + 1],
                 !.nUuid = g.nUuid + 1,
                 !.hist.assigns = @ + 1]

\* the body of get chatSession(), were the test of the cached pair missing
ChatSessionOn_NoCache(f) ==
    LET g == IF f.chat = 0 THEN ChatsCreate(f) ELSE f
    IN [CreateChatSessionOn(g) EXCEPT !.hist.assigns = @ + 1, !.hist.lazy = @ + 1]

\* the body of get chatSession(), were this.chat not created ahead of createChatSession()
ChatSessionOn_OneCreate(f) ==
    IF f.session = NoSession
    THEN [CreateChatSessionOn(f) EXCEPT !.hist.assigns = @ + 1, !.hist.lazy = @ + 1]
    ELSE f

\* the body of get chatSession()
ChatSessionOn(f) ==
    LET g == IF f.chat = 0 THEN ChatsCreate(f) ELSE f
    IN IF g.session = NoSession
       THEN [CreateChatSessionOn(g) EXCEPT !.hist.assigns = @ + 1, !.hist.lazy = @ + 1]
       ELSE g

\* write the session fields back
StoreChat(f) ==
    /\ f.nChats <= MaxChats
    /\ chat' = f.chat
    /\ _session' = f.session
    /\ nChats' = f.nChats
    /\ nUuid' = f.nUuid
    /\ hist' = f.hist

\* get chatSession()
chatSession ==
    /\ pc = "ready"
    /\ LET f == ChatSessionOn(ChatState)
       IN /\ StoreChat(f)
          /\ calls' = f.calls
          /\ last' = Seg("chatSession", "call", "", "", "returned", Undefined, "", f.session)
    /\ UNCHANGED <<pc, _apiKey, _options, _genai, _modelVariant, nClients, tasks, streams>>

\* createChatSession()
createChatSession ==
    /\ pc = "ready"
    /\ LET f == CreateChatSessionOn(ChatState)
       IN /\ StoreChat([f EXCEPT !.hist.explicit = @ + 1])
          /\ calls' = f.calls
          /\ last' = Seg("createChatSession", "call", "", "", "returned", Undefined, "", f.session)
    /\ UNCHANGED <<pc, _apiKey, _options, _genai, _modelVariant, nClients, tasks, streams>>

\* the first segment of the chat methods, were it to call createChatSession()
\* where it reads the chatSession getter
ChatSend_Fresh(op, send, message) ==
    /\ MayInvoke(op)
    /\ LET f == CreateChatSessionOn(ChatState)
       IN /\ StoreChat(f)
          /\ calls' = Append(f.calls, Call("chat", send, _genai, _apiKey, "", message, "",
                                           f.session.chat))
          /\ tasks' = Append(tasks, Task(op, f.session.chat))
          /\ last' = Seg(op, "call", message, "", "pending", Undefined, "", f.session)
    /\ UNCHANGED <<pc, _apiKey, _options, _genai, _modelVariant, nClients, streams>>

\* The synchronous first segment of chatMessage and chatMessageStream:
\* this.chatSession.chat.<send>({message})
ChatSend(op, send, message) ==
    /\ MayInvoke(op)
    /\ LET f == ChatSessionOn(ChatState)
       IN /\ StoreChat(f)
          /\ IF f.session.chat = 0
             THEN /\ calls' = f.calls
                  /\ last' = Seg(op, "call", message, "", "threw", Undefined, "TypeError", f.session)
                  /\ UNCHANGED tasks
             ELSE /\ calls' = Append(f.calls, Call("chat", send, _genai, _apiKey, "", message, "",
                                                   f.session.chat))
                  /\ tasks' = Append(tasks, Task(op, f.session.chat))
                  /\ last' = Seg(op, "call", message, "", "pending", Undefined, "", f.session)
    /\ UNCHANGED <<pc, _apiKey, _options, _genai, _modelVariant, nClients, streams>>

chatMessage(message) == ChatSend("chatMessage", "sendMessage", message)
chatMessageStream(message) == ChatSend("chatMessageStream", "sendMessageStream", message)

-----------------------------------------------------------------------------
(* The file operations *)

FileOps == {"uploadFile", "getFile", "deleteFile"}

Returned(value) == [status |-> "returned", value |-> value, err |-> ""]
Threw(err) == [status |-> "threw", value |-> Undefined, err |-> err]

\* if (!newUpload) { throw Error("Upload failed") }; return newUpload
uploadFileResumed(newUpload) ==
    IF Falsy(newUpload) THEN Threw("Upload failed") ELSE Returned(newUpload)

\* the end of getFile, were the test file === undefined
getFileResumed_Strict(file) ==
    IF file = Undefined THEN Threw("File not found") ELSE Returned(file)

\* if (!file) { throw Error("File not found") }; return file
getFileResumed(file) ==
    IF Falsy(file) THEN Threw("File not found") ELSE Returned(file)

\* if (!response) { throw Error("File not found") }; return response
deleteFileResumed(response) ==
    IF Falsy(response) THEN Threw("File not found") ELSE Returned(response)

FileResumed(op, res) ==
    CASE op = "uploadFile" -> uploadFileResumed(res)
      [] op = "getFile" -> getFileResumed(res)
      [] op = "deleteFile" -> deleteFileResumed(res)

\* the first segment of a file method, were the caller's config left out of
\* the request
FileCall_NoConfig(op, extop, arg, cfg) ==
    /\ MayInvoke(op)
    /\ IF _genai.id = 0
       THEN /\ calls' = <<>>
            /\ LET out == FileResumed(op, Undefined)
               IN last' = Seg(op, "call", arg, cfg, out.status, out.value, out.err, NoSession)
            /\ UNCHANGED tasks
       ELSE /\ calls' = <<Call("files", extop, _genai, _apiKey, "", arg, "undefined", 0)>>
            /\ tasks' = Append(tasks, Task(op, 0))
            /\ last' = Seg(op, "call", arg, cfg, "pending", Undefined, "", NoSession)
    /\ UNCHANGED <<pc, _apiKey, _options, _genai, _modelVariant, chat, _session,
                   nClients, nChats, nUuid, hist, streams>>

\* The synchronous first segment of a file method: this._genai?.files.<extop>({...}).
\* Without a client the optional chain yields undefined and no call is made.
FileCall(op, extop, arg, cfg) ==
    /\ MayInvoke(op)
    /\ IF _genai.id = 0
       THEN /\ calls' = <<>>
            /\ LET out == FileResumed(op, Undefined)
               IN last' = Seg(op, "call", arg, cfg, out.status, out.value, out.err, NoSession)
            /\ UNCHANGED tasks
       ELSE /\ calls' = <<Call("files", extop, _genai, _apiKey, "", arg, cfg, 0)>>
            /\ tasks' = Append(tasks, Task(op, 0))
            /\ last' = Seg(op, "call", arg, cfg, "pending", Undefined, "", NoSession)
    /\ UNCHANGED <<pc, _apiKey, _options, _genai, _modelVariant, chat, _session,
                   nClients, nChats, nUuid, hist, streams>>

uploadFile(file, config) == FileCall("uploadFile", "upload", file, config)
getFile(filename, config) == FileCall("getFile", "get", filename, config)
deleteFile(filename, config) == FileCall("deleteFile", "delete", filename, config)

-----------------------------------------------------------------------------
(* The second segment: the awaited external call settles *)

\* the end of a generation method, were it to return the response's text
ReturnRes_Text(res) == Str(res.v)

\* const res = await ...; return res
ReturnRes(res) == res

\* the end of a streaming method, were it to pull once on the generator
\* before returning it
ReturnGenerator_Peeked(res) ==
    [res EXCEPT !.pos = IF Len(res.frags) > 0 THEN 1 ELSE 0]

\* the end of a streaming method, were it to return the generator inside one
\* that ends the iteration where the producer fails
ReturnGenerator_Guarded(res) == [res EXCEPT !.err = ""]

\* const res = await ...generateContentStream(...); return res
\* return await ...sendMessageStream(...)
ReturnGenerator(res) == res

\* the rejection, were it caught and raised again as the facade's own error
Propagate_Wrapped(e) == "Request failed"

\* no try/catch around the await: the rejection is the method's
Propagate(e) == e

\* the end of computeTokens, were the call's promise not returned
ReturnPromise_Dropped(res) == Undefined

\* const res = this.models.computeTokens(...); return res -- res is the
\* call's promise, not awaited: the promise of the async method is resolved
\* with it and takes its outcome, so the method's caller has res's value when
\* the call has resolved
ReturnPromise(res) == res

Resumed(op, res) ==
    IF op \in FileOps THEN FileResumed(op, res)
    ELSE IF op = "computeTokens" THEN Returned(ReturnPromise(res))
    ELSE Returned(ReturnRes(res))

Remove(seq, i) == [j \in 1..(Len(seq) - 1) |-> IF j < i THEN seq[j] ELSE seq[j + 1]]

\* what the external call of op may resolve to, streams apart
Results(op) == IF op \in FileOps THEN Responses \cup EmptyResults ELSE Responses

\* the external call of task i resolves to r
Resolve(i, r) ==
    /\ i \in 1..Len(tasks)
    /\ tasks[i].op \notin StreamOps
    /\ r \in Results(tasks[i].op)
    /\ LET out == Resumed(tasks[i].op, r)
       IN last' = [Seg(tasks[i].op, "settle", "", "", out.status, out.value, out.err, NoSession)
                      EXCEPT !.res = r]
    /\ tasks' = Remove(tasks, i)
    /\ calls' = <<>>
    /\ UNCHANGED <<pc, _apiKey, _options, _genai, _modelVariant, chat, _session,
                   nClients, nChats, nUuid, hist, streams>>

\* the stream the consumer iterates: the generator the method returned, and
\* the consumer's log (fragments received, how the iteration ended, whether a
\* pull after the end was made)
Stream(op, produced, returned) ==
    [op |-> op, frags |-> produced.frags, err |-> produced.err, gen |-> returned,
     got |-> <<>>, end |-> "", extra |-> FALSE]

\* the external streaming call of task i resolves to the generator p
ResolveStream(i, p) ==
    /\ i \in 1..Len(tasks)
    /\ tasks[i].op \in StreamOps
    /\ streams' = Append(streams, Stream(tasks[i].op, p, ReturnGenerator(p)))
    /\ last' = [Seg(tasks[i].op, "settle", "", "", "returned", Obj("stream"), "", NoSession)
                   EXCEPT !.res = Obj("stream")]
    /\ tasks' = Remove(tasks, i)
    /\ calls' = <<>>
    /\ UNCHANGED <<pc, _apiKey, _options, _genai, _modelVariant, chat, _session,
                   nClients, nChats, nUuid, hist>>

\* the external call of task i rejects with e
Reject(i, e) ==
    /\ i \in 1..Len(tasks)
    /\ last' = [Seg(tasks[i].op, "settle", "", "", "threw", Undefined, Propagate(e), NoSession)
                   EXCEPT !.resErr = e]
    /\ tasks' = Remove(tasks, i)
    /\ calls' = <<>>
    /\ UNCHANGED <<pc, _apiKey, _options, _genai, _modelVariant, chat, _session,
                   nClients, nChats, nUuid, hist, streams>>

\* generator.next() of an AsyncGenerator
GenNext(g) ==
    IF g.closed THEN [gen |-> g, kind |-> "done", frag |-> 0]
    ELSE IF g.pos < Len(g.frags)
         THEN [gen |-> [g EXCEPT !.pos = g.pos + 1], kind |-> "value", frag |-> g.frags[g.pos + 1]]
    ELSE IF g.err # ""
         THEN [gen |-> [g EXCEPT !.closed = TRUE], kind |-> "error", frag |-> 0]
    ELSE [gen |-> [g EXCEPT !.closed = TRUE], kind |-> "done", frag |-> 0]

\* the consumer pulls once on stream s
Pull(s) ==
    /\ s \in 1..Len(streams)
    /\ LET st == streams[s]
           nx == GenNext(st.gen)
       IN /\ streams' = [streams EXCEPT ![s] =
                 [st EXCEPT !.gen = nx.gen,
                            !.got = IF nx.kind = "value" THEN Append(st.got, nx.frag) ELSE st.got,
                            !.end = IF st.end # "" THEN st.end
                                    ELSE IF nx.kind = "value" THEN "" ELSE nx.kind,
                            !.extra = st.end # ""]]
          /\ last' = Seg("next", "pull", st.op, "", IF nx.kind = "error" THEN "threw" ELSE "returned",
                         IF nx.kind = "value" THEN Obj("fragment") ELSE Undefined,
                         IF nx.kind = "error" THEN st.gen.err ELSE "", NoSession)
    /\ calls' = <<>>
    /\ UNCHANGED <<pc, _apiKey, _options, _genai, _modelVariant, chat, _session,
                   nClients, nChats, nUuid, hist, tasks>>

\* the consumer lets go of stream s
Release(s) ==
    /\ s \in 1..Len(streams)
    /\ streams' = Remove(streams, s)
    /\ last' = Seg("release", "pull", streams[s].op, "", "returned", Undefined, "", NoSession)
    /\ calls' = <<>>
    /\ UNCHANGED <<pc, _apiKey, _options, _genai, _modelVariant, chat, _session,
                   nClients, nChats, nUuid, hist, tasks>>

-----------------------------------------------------------------------------
(* The next-state relations: every operation, and the operations a caller  *)
(* uses who keeps to one group of methods.  Iterating a returned stream     *)
(* touches no field of the facade; only the callers of Spec and SpecStream  *)
(* iterate, the others take the stream and let go of it.                   *)

Lifecycle ==
    \/ constructor
    \/ GetApiKey
    \/ \E value \in Keys : SetApiKey(value)
    \/ GetOptions

Settle ==
    \/ \E i \in 1..MaxTasks, r \in Responses \cup EmptyResults : Resolve(i, r)
    \/ \E i \in 1..MaxTasks, e \in ExtErrors : Reject(i, e)

\* a streaming call resolves and the consumer has the stream, until it lets go
Handover ==
    \/ \E i \in 1..MaxTasks, p \in Producers : ResolveStream(i, p)
    \/ \E s \in 1..MaxStreams : Release(s)

\* the consumer iterates the stream
Consume == \E s \in 1..MaxStreams : Pull(s)

GenCalls ==
    \/ models
    \/ \E r \in Requests : generateContent(r.arg, r.cfg)
    \/ \E r \in Requests : generateImages(r.arg, r.cfg)
    \/ \E r \in Requests : generateVideos(r.arg, r.cfg)
    \/ \E r \in Requests : computeTokens(r.arg, r.cfg)
    \/ \E r \in Requests : countTokens(r.arg, r.cfg)
    \/ \E r \in Requests : embedContent(r.arg, r.cfg)

GenStreamCalls == \E r \in Requests : generateContentStream(r.arg, r.cfg)

SessionCalls ==
    \/ chatSession
    \/ createChatSession

ChatCalls ==
    \/ \E r \in Requests : chatMessage(r.arg)
    \/ \E r \in Requests : chatMessageStream(r.arg)

FileCalls ==
    \/ \E r \in Requests : uploadFile(r.arg, r.cfg)
    \/ \E r \in Requests : getFile(r.arg, r.cfg)
    \/ \E r \in Requests : deleteFile(r.arg, r.cfg)

Next == Lifecycle \/ GenCalls \/ GenStreamCalls \/ SessionCalls \/ ChatCalls \/ FileCalls
           \/ Settle \/ Handover \/ Consume

Spec == Init /\ [][Next]_vars

\* a caller of the generation methods
NextGen == Lifecycle \/ GenCalls \/ GenStreamCalls \/ Settle \/ Handover
SpecGen == Init /\ [][NextGen]_vars

\* a caller of the chat methods
NextChat == Lifecycle \/ SessionCalls \/ ChatCalls \/ Settle \/ Handover
SpecChat == Init /\ [][NextChat]_vars

\* a caller of the file methods
NextFiles == Lifecycle \/ FileCalls \/ Settle
SpecFiles == Init /\ [][NextFiles]_vars

\* a caller of the two streaming methods
NextStream ==
    \/ Lifecycle \/ GenStreamCalls
    \/ \E r \in Requests : chatMessageStream(r.arg)
    \/ \E i \in 1..MaxTasks, e \in ExtErrors : Reject(i, e)
    \/ Handover \/ Consume
SpecStream == Init /\ [][NextStream]_vars

\* a caller of methods of each kind (generation, chat, file), streams apart
NextMixed ==
    \/ constructor
    \/ \E value \in Keys : SetApiKey(value)
    \/ models
    \/ \E r \in Requests : generateContent(r.arg, r.cfg)
    \/ \E r \in Requests : generateVideos(r.arg, r.cfg)
    \/ chatSession
    \/ \E r \in Requests : chatMessage(r.arg)
    \/ FileCalls
    \/ Settle
SpecMixed == Init /\ [][NextMixed]_vars

\* A caller who issues two chat operations together on a new facade, as in
\* Promise.all([f.chatMessage(a), f.chatMessageStream(b)]): the second is
\* invoked in the caller's segment right after the first, before anything
\* settles.  The caller runs to completion and the event loop delivers every
\* settlement, hence the fairness; the run is over when both operations have
\* completed and the caller has let go of the stream.
IssuedTogether ==
    \/ _session = NoSession /\ tasks = <<>>
    \/ Len(tasks) = 1 /\ last.seg = "call" /\ last.name \in {"chatMessage", "chatMessageStream"}

NextRace ==
    \/ constructor
    \/ IssuedTogether /\ ChatCalls
    \/ Len(tasks) = 2 /\ (Settle \/ Handover \/ Consume)
    \/ Len(tasks) < 2 /\ last.seg # "call" /\ (Settle \/ Handover \/ Consume)
SpecRace == Init /\ [][NextRace]_vars /\ WF_vars(NextRace)

-----------------------------------------------------------------------------
(* Properties *)

GenerationOps == {"generateContent", "generateContentStream", "generateImages", "generateVideos",
                  "computeTokens", "countTokens", "embedContent"}
ChatOps == {"chatMessage", "chatMessageStream"}
PublicOps == GenerationOps \cup ChatOps \cup FileOps

\* C1: whenever one of the twelve public operations has just been invoked
\* while the stored credential is empty, the invocation failed with "API key
\* is not set." and made no call on the external client.
C1_GuardOnEveryOperation ==
    (last.seg = "call" /\ last.name \in PublicOps /\ KeyUnset(_apiKey))
        => (last.status = "threw" /\ last.err = KeyError /\ calls = <<>>)

PassThroughOps == {"generateContent", "generateImages", "generateVideos", "countTokens",
                   "embedContent"}

\* C2: when the external call of generateContent, generateImages,
\* generateVideos, countTokens or embedContent has resolved to r, the method
\* has returned exactly r.
C2_PassThrough ==
    (last.seg = "settle" /\ last.name \in PassThroughOps /\ last.resErr = "")
        => (last.status = "returned" /\ last.value = last.res /\ last.err = "")

C2_Witness ==
    /\ last.seg = "settle"
    /\ last.name = "countTokens"
    /\ last.res = Obj("r2")
    /\ last.value = Obj("r2")
    /\ ~KeyUnset(_apiKey)

\* C3: once a session is cached, a step that is not createChatSession leaves
\* the cached pair as it is; a read of chatSession returns that pair, and
\* chatMessage and chatMessageStream send through its Chat and create none.
C3_SessionStable ==
    [][(_session # NoSession /\ last'.name # "createChatSession")
         => /\ _session' = _session
            /\ (last'.seg = "call" /\ last'.name \in ChatOps \cup {"chatSession"})
                 => /\ last'.sess = _session
                    /\ \A k \in 1..Len(calls') :
                          calls'[k].iface = "chat" /\ calls'[k].chat = _session.chat]_vars

C3_Witness ==
    /\ last.seg = "call"
    /\ last.name = "chatMessageStream"
    /\ hist.lazy = 1
    /\ hist.explicit = 0
    /\ Len(calls) = 1
    /\ last.sess = _session
    /\ Len(tasks) = 2
    /\ tasks[1].op = "chatMessage"

\* C4 as claimed: over the facade's lifetime chats.create is invoked at most
\* once and the cached session slot is assigned at most once.
C4_CreatedOnce == nChats <= 1 /\ hist.assigns <= 1

\* C4 as amended: the lazy first access runs at most once per facade and
\* invokes chats.create twice and assigns the slot twice; every explicit
\* createChatSession invokes chats.create once more and assigns the slot once
\* more; the slot holds the pair made last.
C4_CreatedPerRequest ==
    /\ hist.lazy <= 1
    /\ nChats = 2 * hist.lazy + hist.explicit
    /\ hist.assigns = 2 * hist.lazy + hist.explicit
    /\ _session = NoSession <=> nChats = 0
    /\ _session # NoSession => _session.id = nUuid

C4_Witness == hist.lazy = 1 /\ hist.explicit = 1 /\ nChats = 3

InFlightChats == {i \in 1..Len(tasks) : tasks[i].op \in ChatOps}

\* C5 as claimed: two chat operations issued together on a facade without a
\* session come to send through different Chat objects.
C5_RacedSessions ==
    <>(\E i, j \in InFlightChats : tasks[i].chat # tasks[j].chat)

\* C5 as amended: of two chat operations issued together on a facade without
\* a session, only the first constructs the session; both send through the
\* cached Chat, and the second makes no call but its send.
C5_NoRace ==
    /\ \A i \in InFlightChats : tasks[i].chat = _session.chat
    /\ hist.lazy <= 1
    /\ (Len(tasks) = 2 /\ last.seg = "call") => Len(calls) = 1

C5_Witness ==
    /\ Len(tasks) = 2
    /\ tasks[1].op = "chatMessageStream"
    /\ tasks[2].op = "chatMessage"
    /\ last.seg = "call"
    /\ tasks[1].chat = tasks[2].chat

\* C6: every call made while the stored credential is a non-empty k goes to
\* a client built from a configuration whose credential is k.
C6_SetterReflected ==
    \A k \in 1..Len(calls) :
        ~KeyUnset(calls[k].key) => calls[k].clientKey = calls[k].key

FileError(op) == IF op = "uploadFile" THEN "Upload failed" ELSE "File not found"

\* C7: a file method raises nothing before its external call has settled;
\* when the call has settled, the method has raised "Upload failed"
\* (uploadFile) or "File not found" (getFile, deleteFile) if the result was
\* empty, has returned the result itself if it was not, and has raised the
\* external failure if there was one.
C7_FileResults ==
    /\ (last.seg = "call" /\ last.name \in FileOps) => last.status = "pending"
    /\ (last.seg = "settle" /\ last.name \in FileOps)
         => IF last.resErr # ""
            THEN last.status = "threw" /\ last.err = last.resErr
            ELSE IF Falsy(last.res)
                 THEN last.status = "threw" /\ last.err = FileError(last.name)
                 ELSE last.status = "returned" /\ last.value = last.res /\ last.err = ""

C7_Witness ==
    /\ last.seg = "settle"
    /\ last.name = "getFile"
    /\ last.res = Null
    /\ last.err = "File not found"

\* C8: of a stream whose producer emits f1..fn and does not fail, the
\* consumer has received a prefix of f1..fn in order; a pull made after fn
\* ends the iteration, and a pull made after the end delivers nothing.
C8_StreamInOrder ==
    /\ [](\A s \in 1..Len(streams) :
            streams[s].err = ""
              => /\ Len(streams[s].got) <= Len(streams[s].frags)
                 /\ streams[s].got = SubSeq(streams[s].frags, 1, Len(streams[s].got))
                 /\ streams[s].end \in {"", "done"}
                 /\ streams[s].end = "done" => streams[s].got = streams[s].frags)
    /\ [][\A s \in 1..Len(streams) :
            (last'.name = "next" /\ Len(streams') = Len(streams) /\ streams'[s] # streams[s]
               /\ streams[s].err = "" /\ streams[s].got = streams[s].frags)
              => (streams'[s].end = "done" /\ streams'[s].got = streams[s].got)]_vars

C8_Witness ==
    \E s \in 1..Len(streams) :
        /\ streams[s].op = "chatMessageStream"
        /\ streams[s].err = ""
        /\ Len(streams[s].frags) = MaxFrags
        /\ streams[s].got = streams[s].frags
        /\ streams[s].end = "done"
        /\ streams[s].extra

\* C9: the constructor step leaves the configuration bag with the credential
\* it was given, whatever the bag held, and the client handle a client newly
\* built from that bag, whatever handle was passed.
C9_Constructor ==
    [][(pc = "new" /\ pc' = "ready")
         => /\ _apiKey' = _apiKey
            /\ _options'.hasApiKey /\ _options'.apiKey = _apiKey
            /\ _options'.apiVersion = _options.apiVersion
            /\ _genai'.by = "facade"
            /\ _genai'.id = nClients + 1
            /\ _genai' # _genai
            /\ _genai'.cfg = _options']_vars

C9_Witness ==
    /\ last.name = "constructor"
    /\ _apiKey = "k1"
    /\ _options = [hasApiKey |-> TRUE, apiKey |-> "k1", apiVersion |-> "v1alpha"]
    /\ _genai = NewGoogleGenAI(2, _options, "facade")

\* C10: a write of apiKey changes the stored credential to the value written
\* and nothing else of the facade, and a read that follows returns that value.
C10_SetterFrame ==
    [][/\ last'.name = "setApiKey"
            => /\ _apiKey' = last'.arg
               /\ UNCHANGED <<_options, _genai, _modelVariant, chat, _session>>
       /\ (last.name = "setApiKey" /\ last'.name = "getApiKey")
            => last'.value = Str(last.arg)]_vars

C10_Witness ==
    /\ last.name = "setApiKey"
    /\ _apiKey = "k2"
    /\ _options.apiKey = "k1"
    /\ _genai.cfg.apiKey = "k1"
    /\ _session # NoSession

\* C11: createChatSession() on a facade that has a cached pair puts a new
\* pair in its place, with a Chat and an identifier that both differ from the
\* replaced pair's and from every Chat an operation in flight was sent
\* through; the operations in flight keep the Chat they were sent through;
\* the call returns the new pair, and the read of chatSession or the chat
\* operation that follows uses the new pair.
C11_Replaced ==
    [][/\ (_session # NoSession /\ last'.name = "createChatSession")
            => /\ _session'.chat # _session.chat
               /\ _session'.id # _session.id
               /\ _session'.chat # 0
               /\ chat' = _session'.chat
               /\ last'.sess = _session'
               /\ tasks' = tasks
               /\ \A i \in InFlightChats : tasks'[i].chat # _session'.chat
       /\ (last.name = "createChatSession" /\ last'.seg = "call"
             /\ last'.name \in ChatOps \cup {"chatSession"})
            => /\ last'.sess = last.sess
               /\ \A k \in 1..Len(calls') : calls'[k].chat = last.sess.chat]_vars

C11_Witness ==
    /\ last.name = "createChatSession"
    /\ hist.lazy = 1
    /\ hist.explicit = 1
    /\ _session = [chat |-> 3, id |-> 2]
    /\ Len(tasks) = 1
    /\ tasks[1].op = "chatMessage"
    /\ tasks[1].chat = 2

\* C12: when the external call of computeTokens has settled, the caller that
\* awaited the method once has the outcome of that call: its response r when
\* it resolved, its failure e when it rejected, which is the outcome
\* countTokens gives for the same settlement.
C12_ComputeTokensSettled ==
    (last.seg = "settle" /\ last.name = "computeTokens")
        => IF last.resErr = ""
           THEN /\ last.status = "returned" /\ last.value = last.res /\ last.err = ""
                /\ Resumed("countTokens", last.res) = Returned(last.value)
           ELSE /\ last.status = "threw" /\ last.err = last.resErr /\ last.value = Undefined

C12_Witness ==
    /\ last.seg = "settle"
    /\ last.name = "computeTokens"
    /\ last.res = Obj("r1")
    /\ last.value = Obj("r1")
    /\ Len(tasks) = 1
    /\ tasks[1].op = "countTokens"

\* C13: when the external call an operation awaits rejects with e, be it on
\* the models, the chat or the files interface, the operation is over and
\* has failed with exactly e: it returned no value, and the segment that
\* received e made no external call, so nothing is retried.
C13_FailurePropagates ==
    [][(last'.seg = "settle" /\ last'.resErr # "")
         => /\ last'.status = "threw"
            /\ last'.err = last'.resErr
            /\ last'.value = Undefined
            /\ calls' = <<>>
            /\ Len(tasks') = Len(tasks) - 1
            /\ \E i \in 1..Len(tasks) : tasks[i].op = last'.name /\ tasks' = Remove(tasks, i)]_vars

C13_Witness ==
    /\ last.seg = "settle"
    /\ last.name = "chatMessage"
    /\ last.status = "threw"
    /\ last.err = "e1"
    /\ Len(tasks) = 1
    /\ tasks[1].op = "uploadFile"

\* C14: an invocation of one of the seven generation operations that passes
\* the guard makes exactly one external call, on the models interface, to the
\* operation of the same name, with the facade's model identifier, the
\* caller's contents or prompt and the caller's config; the segment in which
\* the call settles makes none; the model identifier is the one given at
\* construction for as long as the facade lives.
C14_OneModelsCall ==
    [][/\ _modelVariant' = _modelVariant
       /\ (last'.seg = "call" /\ last'.name \in GenerationOps /\ last'.status = "pending")
            => /\ Len(calls') = 1
               /\ calls'[1].iface = "models"
               /\ calls'[1].op = last'.name
               /\ calls'[1].model = _modelVariant
               /\ calls'[1].arg = last'.arg
               /\ calls'[1].cfg = last'.cfg
       /\ (last'.seg = "settle" /\ last'.name \in GenerationOps) => calls' = <<>>]_vars

C14_Witness ==
    /\ last.seg = "call"
    /\ last.name = "embedContent"
    /\ last.status = "pending"
    /\ _modelVariant = "gemini-2.0-flash"
    /\ Len(calls) = 1
    /\ calls[1].model = "gemini-2.0-flash"
    /\ calls[1].arg = "c2"
    /\ calls[1].cfg = "cfg"
    /\ Len(tasks) = 2

\* the calls of the last segment that create a session on the external client
Creates == {k \in 1..Len(calls) : calls[k].iface = "chats" /\ calls[k].op = "create"}

\* C15: a read of chatSession, or a chat operation, that finds no session
\* cached creates exactly one session on the external client, with the
\* facade's model and an empty generation config, and caches it under a new
\* identifier.
C15_FirstAccessCreatesOne ==
    (last.seg = "call" /\ last.name \in ChatOps \cup {"chatSession"} /\ Creates # {})
        => /\ Cardinality(Creates) = 1
           /\ \A k \in Creates :
                 /\ calls[k].model = _modelVariant
                 /\ calls[k].cfg = "{}"
                 /\ _session.chat = calls[k].chat
           /\ _session.id = nUuid

\* C16: of a stream whose producer emits f1..fk and then fails with e, the
\* consumer has received a prefix of f1..fk in order and no failure before
\* fk; the pull made after fk raises e and does not end the iteration
\* normally; the generator is closed by the consumer's pulls only.
C16_StreamFailure ==
    /\ [](\A s \in 1..Len(streams) :
            streams[s].err # ""
              => /\ Len(streams[s].got) <= Len(streams[s].frags)
                 /\ streams[s].got = SubSeq(streams[s].frags, 1, Len(streams[s].got))
                 /\ streams[s].end \in {"", "error"}
                 /\ streams[s].end = "error" => streams[s].got = streams[s].frags
                 /\ streams[s].gen.closed => streams[s].end = "error")
    /\ [][\A s \in 1..Len(streams) :
            (last'.name = "next" /\ Len(streams') = Len(streams) /\ streams'[s] # streams[s]
               /\ streams[s].err # "" /\ streams[s].end = "")
              => IF streams[s].got = streams[s].frags
                 THEN /\ streams'[s].end = "error"
                      /\ streams'[s].got = streams[s].got
                      /\ last'.status = "threw"
                      /\ last'.err = streams[s].err
                 ELSE /\ streams'[s].end = ""
                      /\ last'.status = "returned"
                      /\ Len(streams'[s].got) = Len(streams[s].got) + 1]_vars

C16_Witness ==
    \E s \in 1..Len(streams) :
        /\ streams[s].op = "generateContentStream"
        /\ streams[s].err = "e1"
        /\ Len(streams[s].frags) = MaxFrags
        /\ streams[s].got = streams[s].frags
        /\ streams[s].end = "error"
        /\ last.name = "next"
        /\ last.status = "threw"
        /\ last.err = "e1"

\* the operation of the files interface each file method calls
FilesOp(op) ==
    CASE op = "uploadFile" -> "upload"
      [] op = "getFile" -> "get"
      [] op = "deleteFile" -> "delete"

\* C17: an invocation of uploadFile, getFile or deleteFile makes exactly one
\* external call, on the files interface, to upload, get or delete, with the
\* caller's file or name and the caller's config; the segment in which that
\* call settles makes none, whether the call resolved, came back empty or
\* rejected.
C17_OneFilesCall ==
    /\ (last.seg = "call" /\ last.name \in FileOps)
         => /\ last.status = "pending"
            /\ Len(calls) = 1
            /\ calls[1].iface = "files"
            /\ calls[1].op = FilesOp(last.name)
            /\ calls[1].arg = last.arg
            /\ calls[1].cfg = last.cfg
            /\ calls[1].client = _genai.id
    /\ (last.seg = "settle" /\ last.name \in FileOps) => calls = <<>>

C17_Witness ==
    /\ last.seg = "call"
    /\ last.name = "deleteFile"
    /\ Len(calls) = 1
    /\ calls[1].op = "delete"
    /\ calls[1].arg = "c2"
    /\ calls[1].cfg = "cfg"
    /\ Len(tasks) = 2
    /\ tasks[1].op = "uploadFile"

\* C18: the constructor builds one client; from then on the facade's client
\* handle is that client, whatever operations run and whatever is written to
\* apiKey, and no further client is built, so no operation finds the handle
\* absent.
C18_ClientFixed ==
    /\ [](pc = "ready" => /\ _genai # NoClient
                          /\ _genai.id # 0
                          /\ _genai.by = "facade"
                          /\ _genai.id = nClients)
    /\ [][IF pc = "new"
          THEN nClients' = nClients + 1 /\ _genai'.id = nClients'
          ELSE _genai' = _genai /\ nClients' = nClients]_vars

C18_Witness ==
    /\ pc = "ready"
    /\ last.seg = "call"
    /\ last.name = "generateVideos"
    /\ last.status = "pending"
    /\ _apiKey = "k2"
    /\ _genai.cfg.apiKey = "k1"
    /\ _genai.id = 2
    /\ nClients = 2
    /\ calls[1].client = 2
    /\ _session # NoSession
    /\ hist.refused

\* C19: whether a generation operation passes the guard depends on the
\* credential stored when it is invoked and on nothing that happened before:
\* with an empty credential it fails with "API key is not set." and calls
\* nothing; with a non-empty one, also after operations have been refused, it
\* makes its external call, with that credential in force, through the
\* client handle the facade has had all along.
C19_GuardOnCurrentValue ==
    /\ []((last.seg = "call" /\ last.name \in GenerationOps)
            => IF KeyUnset(_apiKey)
               THEN last.status = "threw" /\ last.err = KeyError /\ calls = <<>> /\ hist.refused
               ELSE /\ last.status = "pending"
                    /\ Len(calls) = 1
                    /\ calls[1].iface = "models"
                    /\ calls[1].client = _genai.id
                    /\ calls[1].key = _apiKey)
    /\ [][(pc = "ready" /\ last'.name \in GenerationOps) => _genai' = _genai]_vars

C19_Witness ==
    /\ hist.refused
    /\ last.seg = "call"
    /\ last.name = "computeTokens"
    /\ last.status = "pending"
    /\ _apiKey = "k1"
    /\ _options.apiKey = ""
    /\ Len(calls) = 1
    /\ calls[1].client = _genai.id
    /\ tasks = <<Task("computeTokens", 0)>>

\* C20: a generation operation or a read of models that the guard refuses
\* leaves the credential, the configuration bag, the client handle, the model
\* identifier and the cached chat session as they were, and starts nothing.
C20_RefusalFrame ==
    [][(last'.seg = "call" /\ last'.name \in GenerationOps \cup {"models"}
          /\ last'.status = "threw" /\ last'.err = KeyError)
         => /\ UNCHANGED <<_apiKey, _options, _genai, _modelVariant, chat, _session>>
            /\ UNCHANGED <<nClients, nChats, nUuid, tasks, streams>>
            /\ calls' = <<>>]_vars

C20_Witness ==
    /\ last.seg = "call"
    /\ last.name = "generateVideos"
    /\ last.status = "threw"
    /\ last.err = KeyError
    /\ _apiKey = ""
    /\ _genai.cfg.apiKey = "k2"
    /\ _session # NoSession
    /\ Len(tasks) = 1
    /\ tasks[1].op = "chatMessage"

\* C21: whenever a session is cached, the Chat of the cached pair is the Chat
\* in the facade's chat field, and that is the Chat chats.create returned
\* last; a chatMessage or chatMessageStream that has just been invoked sent
\* through that Chat.
C21_SessionIsChat ==
    /\ _session # NoSession
         => /\ _session.chat = chat
            /\ chat # 0
            /\ chat = nChats
    /\ (last.seg = "call" /\ last.name \in ChatOps /\ last.status = "pending")
         => /\ calls # <<>>
            /\ calls[Len(calls)].iface = "chat"
            /\ calls[Len(calls)].chat = chat
            /\ calls[Len(calls)].chat = nChats
            /\ tasks[Len(tasks)].chat = nChats

C21_Witness ==
    /\ last.seg = "call"
    /\ last.name = "chatMessage"
    /\ last.status = "pending"
    /\ hist.lazy = 1
    /\ hist.explicit = 1
    /\ chat = 3
    /\ _session.chat = 3
    /\ Len(tasks) = 2
    /\ tasks[1].chat = 2
    /\ tasks[2].chat = 3

====
